---- MODULE Spec2Model ----
(***************************************************************************)
(* A model of gitjoin's reconciliation engine (internal/lib/sync.go and    *)
(* internal/lib/git.go): Syncer.run collects the expected repositories,    *)
(* hands one processRepo task per repository to a pool of workers          *)
(* (parahelpers, an errgroup behind a semaphore), waits for them, sweeps   *)
(* the checkouts no worker registered and rewrites the managed section of  *)
(* .gitignore.                                                             *)
(***************************************************************************)
EXTENDS Integers, Sequences, FiniteSets, TLC

\* Number of checkouts under the root that no manifest can declare.
MaxStrays == 1
\* Number of backend / filesystem operations that may fail in one behaviour.
MaxFailures == 2
\* Number of times Sync is called, one after the other, on the same tree.
MaxRuns == 2
\* Length of the .gitignore contents enumerated for updateGitignore alone.
MaxLen == 7
\* Length of the glob patterns enumerated for collectExpectedRepos alone.
MaxPat == 3

\* numWorkers := max(4, runtime.NumCPU())
NumWorkers == 4

\* Directories right under the root, in lexical order. The manifests at the root
\* may declare the first two; the others are directories beside them.
PathNames == <<"a", "b", "c", "d", "e">>
Declarable == {PathNames[1], PathNames[2]}
Strays == {PathNames[2 + i] : i \in 1..MaxStrays}
\* A directory inside the first of them, and the directory that holds it.
Nested == {"a/n"}
Parent(p) == PathNames[1]
Paths == Declarable \cup Strays \cup Nested
\* The root directory, as filepath.Rel names it, and all the directories.
Root == "."
Nodes == Paths \cup {Root}
\* The order filepath.WalkDir visits the directories in, which is also the order
\* sort.Strings gives their paths.
WalkOrder == <<".", "a", "a/n", "b", "c", "d", "e">>
PathIndex(p) == CHOOSE i \in 1..Len(WalkOrder) : WalkOrder[i] = p
\* q is p or lies inside p.
Under(q, p) == q = p \/ p = Root \/ (q \in Nested /\ Parent(q) = p)

None == "none"
Branches == {"main", "dev"}
\* The branch refs/remotes/origin/HEAD points to.
OriginHead == "main"

\* `git status --porcelain` output: per changed path the two letters XY that
\* start its line (ChangesSummary reads line[:2]; the TrimSpace before the split
\* turns a first line " Y path" into "Y path", whose first two letters are Y and
\* a blank, the same letters).
StatusSamples ==
    {<<>>, << <<" ", "M">> >>, << <<"?", "?">>, <<"D", " ">> >>, << <<"R", " ">> >>,
     << <<"?", "?">> >>}

VARIABLES
    force,      \* Cfg.Force
    manifest,   \* the lines of the gitjoin.txt files under the root, each with the
                \* directory of its file
    filter,     \* Cfg.Paths, a glob pattern as a sequence of characters
    gitignore,  \* content of <root>/.gitignore, a sequence of tokens
    ignoreExists, \* <root>/.gitignore exists
    disk,       \* per directory: "absent", "dir" (no .git) or "repo"
    cur,        \* per checkout: the branch checked out
    status,     \* per checkout: the porcelain status lines
    head,       \* per checkout: commit of the local default branch
    upstream,   \* per checkout: commit of the remote default branch
    stash,      \* per checkout: the stash stack, each entry the status it saved
    pc,         \* where Syncer.run is
    expected,   \* keys of the map collectExpectedRepos returned
    w,          \* per path: where its processRepo task is
    werr,       \* per path: the error its task returned ("" for nil)
    ctxDone,    \* the errgroup's context is cancelled
    firstErr,   \* the error errgroup's Wait will return
    existing,   \* keys of the sync.Map the workers fill
    mu,         \* holder of the sync.Mutex guarding result
    snap,       \* per path: the bucket as append read it, before it is written back
    result,     \* the Result under construction
    runErr,     \* the error run returned
    kind,       \* per path: what the task is about to append
    lCurrent,   \* per path: processRepo's currentBranch
    lDirty,     \* per path: processRepo's dirty
    details,    \* per path: processRepo's details
    stashed,    \* per path: processRepo's stashed
    allRepos,   \* what findAllGitRepos returned, not yet visited
    ops,        \* per path: the backend operations issued so far
    written,    \* the contents updateGitignore wrote, one per call
    seen,       \* what os.ReadFile gave those calls: whether the file was there, and its content
    runs,       \* how many times Sync has been called
    headAtStart,\* per path: `head` when the current call of Sync began
    diskAtStart,\* per path: `disk` when the current call of Sync began
    prevPulled, \* paths whose task pulled and returned nil in the previous call
    failures    \* failures injected so far

vars == <<force, manifest, filter, gitignore, ignoreExists, disk, cur, status, head,
          upstream, stash, pc, expected, w, werr, ctxDone, firstErr, existing,
          mu, snap, result, runErr, kind, lCurrent, lDirty, details, stashed,
          allRepos, ops, written, seen, runs, headAtStart, diskAtStart,
          prevPulled, failures>>

\* What only a new call of Sync changes.
callVars == <<force, manifest, filter, runs, headAtStart, diskAtStart, prevPulled>>

diskVars == <<disk, cur, status, head, upstream, stash>>
localVars == <<kind, lCurrent, lDirty, details, stashed>>
groupVars == <<werr, ctxDone, firstErr>>
ignoreVars == <<gitignore, ignoreExists, seen>>
lockVars == <<mu, snap>>

EmptyResult ==
    [Updated |-> <<>>, Cloned |-> <<>>, Removed |-> <<>>, Skipped |-> <<>>,
     Warnings |-> <<>>]

\* Outcomes an operation that can fail may have: FALSE is the failure.
Outcomes == IF failures < MaxFailures THEN {TRUE, FALSE} ELSE {TRUE}
Charge(ok) == failures' = IF ok THEN failures ELSE failures + 1

(***************************************************************************)
(* Pure helpers                                                            *)
(***************************************************************************)

RECURSIVE Join(_, _)
\* strings.Join(parts, sep)
Join(parts, sep) ==
    IF parts = <<>> THEN ""
    ELSE IF Len(parts) = 1 THEN parts[1]
    ELSE parts[1] \o sep \o Join(Tail(parts), sep)

\* fmt.Sprintf("%d", n) for the small counts of the model
NumStr(n) == <<"0", "1", "2", "3", "4", "5", "6", "7", "8", "9">>[n + 1]

Contains(code, c) == code[1] = c \/ code[2] = c

RECURSIVE CountLines(_, _)
\* The for loop of ChangesSummary: which of the three counters each line bumps.
CountLines(lines, what) ==
    IF lines = <<>> THEN 0
    ELSE LET code == Head(lines)
             cls == IF Contains(code, "M") THEN "modified"
                    ELSE IF Contains(code, "A") \/ Contains(code, "?") THEN "added"
                    ELSE IF Contains(code, "D") THEN "deleted"
                    ELSE "other"
         IN  (IF cls = what THEN 1 ELSE 0) + CountLines(Tail(lines), what)

\* Repo.ChangesSummary on a checkout whose porcelain status is `lines`; runOk is
\* whether the `git status` it runs succeeded (its error is dropped).
ChangesSummary(lines, runOk) ==
    IF ~runOk \/ lines = <<>> THEN "no changes"
    ELSE LET modified == CountLines(lines, "modified")
             added == CountLines(lines, "added")
             deleted == CountLines(lines, "deleted")
             parts ==
                 (IF modified > 0 THEN <<NumStr(modified) \o " modified">> ELSE <<>>)
                 \o (IF added > 0 THEN <<NumStr(added) \o " added">> ELSE <<>>)
                 \o (IF deleted > 0 THEN <<NumStr(deleted) \o " deleted">> ELSE <<>>)
         IN  IF parts = <<>> THEN NumStr(Len(lines)) \o " changes"
             ELSE Join(parts, ", ")

RECURSIVE SortedPaths(_)
\* sort.Strings over the keys of the map: the model's paths sort as PathNames lists them.
SortedPaths(S) ==
    IF S = {} THEN <<>>
    ELSE LET m == CHOOSE x \in S : \A y \in S : PathIndex(x) <= PathIndex(y)
         IN  <<m>> \o SortedPaths(S \ {m})

\* The paths (set) that occur in a bucket of the result.
BucketPaths(bucket) == {bucket[i].Path : i \in 1..Len(bucket)}
EntriesFor(bucket, p) == {i \in 1..Len(bucket) : bucket[i].Path = p}

(***************************************************************************)
(* collectExpectedRepos. A manifest line is the directory of its gitjoin.txt *)
(* relative to the root (a sequence of names, empty for the root itself)   *)
(* and the repository identifier it holds (a sequence of names). A name of *)
(* the model is one character long; a glob pattern and the path it is      *)
(* matched against are sequences of characters.                            *)
(***************************************************************************)

Separator == "/"

\* filepath.Base(repo)
Base(repo) == IF repo = <<>> THEN "." ELSE repo[Len(repo)]

\* The names of localPath: repoName when relDir is ".", else relDir joined
\* with repoName.
LocalPath(line) ==
    LET repoName == Base(line.repo)
    IN  IF line.dir = <<>> THEN <<repoName>> ELSE line.dir \o <<repoName>>

RECURSIVE Chars(_)
\* The characters of a path made of one-character names.
Chars(names) ==
    IF names = <<>> THEN <<>>
    ELSE IF Len(names) = 1 THEN names
    ELSE <<names[1], Separator>> \o Chars(Tail(names))

\* localPath as the string that keys the map.
Key(names) == Join(names, Separator)

\* filepath.Match reports ErrBadPattern for a pattern with a '[' that no ']'
\* closes, whatever the name.
BadPattern(pattern) ==
    \E i \in 1..Len(pattern) :
       /\ pattern[i] = "["
       /\ \A j \in (i + 1)..Len(pattern) : pattern[j] # "]"

RECURSIVE Match(_, _)
\* filepath.Match on a well-formed pattern: '*' matches any run of characters
\* other than the separator, '?' one such character, any other character itself.
Match(pattern, name) ==
    IF pattern = <<>> THEN name = <<>>
    ELSE IF Head(pattern) = "*"
    THEN \E k \in 0..Len(name) :
            /\ \A j \in 1..k : name[j] # Separator
            /\ Match(Tail(pattern), SubSeq(name, k + 1, Len(name)))
    ELSE IF name = <<>> THEN FALSE
    ELSE IF Head(pattern) = "?"
    THEN Head(name) # Separator /\ Match(Tail(pattern), Tail(name))
    ELSE Head(pattern) = Head(name) /\ Match(Tail(pattern), Tail(name))

\* Kept letting every line through, filter or not.
Kept_All(lines, pattern) == lines

\* The lines the loop keeps: all of them without a filter, else those whose
\* local path matches it.
Kept(lines, pattern) ==
    {l \in lines : pattern = <<>> \/ Match(pattern, Chars(LocalPath(l)))}

\* The map collectExpectedRepos builds (its keys) and whether it returns the
\* error of a filepath.Match call; Match is called once per line, and only when
\* a filter is set.
CollectExpected(lines, pattern) ==
    IF pattern # <<>> /\ lines # {} /\ BadPattern(pattern)
    THEN [err |-> TRUE, keys |-> {}]
    ELSE [err |-> FALSE, keys |-> {Key(LocalPath(l)) : l \in Kept(lines, pattern)}]

\* The lines of a gitjoin.txt at the root, one per declarable directory.
RootLines == {[dir |-> <<>>, repo |-> <<"h", "o", p>>] : p \in Declarable}
\* Those, a second identifier with the base name of the first, and the line of
\* a gitjoin.txt inside the first directory.
AllLines ==
    RootLines \cup {[dir |-> <<>>, repo |-> <<"h", "p", "a">>],
                    [dir |-> <<"a">>, repo |-> <<"h", "o", "n">>]}

\* The filters Sync is called with: none, one path, a malformed pattern.
Filters == {<<>>, <<"a">>, <<"[">>}

(***************************************************************************)
(* Initial state: a tree under the root, before Sync is called             *)
(***************************************************************************)

\* A checkout as the model starts it: clean or dirty, on either branch, level
\* with or one commit behind its remote; the checkouts whose only change is a
\* rename or an untracked file are level with their remote.
InitCheckouts ==
    {c \in [cur : Branches, status : StatusSamples, upstream : {0, 1}] :
        c.status \in {<< <<"R", " ">> >>, << <<"?", "?">> >>} => c.upstream = 0}

Init ==
    /\ force \in BOOLEAN
    /\ manifest \in SUBSET RootLines
    /\ filter \in Filters
    /\ gitignore = <<>>
    /\ ignoreExists = FALSE
    /\ disk \in [Nodes -> {"absent", "dir", "repo"}]
    /\ disk[Root] = "dir"
    /\ \A p \in Strays \cup Nested : disk[p] # "dir"
    \* a checkout inside a directory that is a checkout itself
    /\ \A p \in Nested : disk[p] = "repo" => disk[Parent(p)] = "repo"
    \* What is not a checkout has no branch, status or commits, and a checkout
    \* outside the map is only ever deleted: the others are in any state.
    /\ LET live == {p \in Paths : /\ disk[p] = "repo"
                                   /\ p \in CollectExpected(manifest, filter).keys}
       IN  \E c \in [live -> InitCheckouts] :
              /\ cur = [p \in Paths |-> IF p \in live THEN c[p].cur ELSE OriginHead]
              /\ status = [p \in Paths |-> IF p \in live THEN c[p].status ELSE <<>>]
              /\ upstream = [p \in Paths |-> IF p \in live THEN c[p].upstream ELSE 0]
    /\ head = [p \in Paths |-> 0]
    /\ stash = [p \in Paths |-> <<>>]
    /\ pc = "collect"
    /\ expected = {}
    /\ w = [p \in Paths |-> "idle"]
    /\ werr = [p \in Paths |-> ""]
    /\ ctxDone = FALSE
    /\ firstErr = None
    /\ existing = {}
    /\ mu = None
    /\ snap = [p \in Paths |-> <<>>]
    /\ result = EmptyResult
    /\ runErr = None
    /\ kind = [p \in Paths |-> None]
    /\ lCurrent = [p \in Paths |-> ""]
    /\ lDirty = [p \in Paths |-> FALSE]
    /\ details = [p \in Paths |-> <<>>]
    /\ stashed = [p \in Paths |-> FALSE]
    /\ allRepos = <<>>
    /\ ops = [p \in Paths |-> <<>>]
    /\ written = <<>>
    /\ seen = <<>>
    /\ runs = 1
    /\ headAtStart = head
    /\ diskAtStart = disk
    /\ prevPulled = {}
    /\ failures = 0

(***************************************************************************)
(* Syncer.run, the goroutine that calls it                                 *)
(***************************************************************************)

\* The local paths the manifests declare, whatever the filter.
Declared == {Key(LocalPath(l)) : l \in manifest}

\* Tasks handed to the group that have not returned yet.
Running == {p \in Paths : w[p] \notin {"idle", "dropped", "done"}}

\* expected, err := s.collectExpectedRepos(): the walk or a manifest read may
\* fail (ok is FALSE), and so may a call of filepath.Match.
Collect ==
    /\ pc = "collect"
    /\ \E ok \in Outcomes :
          /\ Charge(ok)
          /\ LET c == CollectExpected(manifest, filter) IN
             IF ~ok
             THEN /\ expected' = expected
                  /\ pc' = "failed"
                  /\ runErr' = "collect"
             ELSE IF c.err
             THEN /\ expected' = expected
                  /\ pc' = "failed"
                  /\ runErr' = "syntax error in pattern"
             ELSE /\ expected' = c.keys
                  /\ pc' = "dispatch"
                  /\ runErr' = runErr
    /\ UNCHANGED <<callVars, ignoreVars, diskVars, w, groupVars, existing,
                   lockVars, result, localVars, allRepos, ops, written>>

\* One turn of `for localPath, repoPath := range expected { r.Run(...) }`. The map
\* is ranged over in any order. Run takes a slot of the semaphore and starts the
\* task, or returns without starting it when the group's context is done; with
\* both possible the select picks either.
Dispatch(p) ==
    /\ pc = "dispatch"
    /\ p \in expected
    /\ w[p] = "idle"
    /\ \/ /\ Cardinality(Running) < NumWorkers
          /\ w' = [w EXCEPT ![p] = "ctx"]
       \/ /\ ctxDone
          /\ w' = [w EXCEPT ![p] = "dropped"]
    /\ UNCHANGED <<callVars, ignoreVars, diskVars, pc, expected, groupVars,
                   existing, lockVars, result, runErr, localVars, allRepos, ops, written,
                   failures>>

\* The range loop is over: run goes on to r.Wait().
EndDispatch ==
    /\ pc = "dispatch"
    /\ \A p \in expected : w[p] # "idle"
    /\ pc' = "wait"
    /\ UNCHANGED <<callVars, ignoreVars, diskVars, expected, w, groupVars,
                   existing, lockVars, result, runErr, localVars, allRepos, ops, written,
                   failures>>

\* Wait returning without waiting for the tasks still running.
Wait_NoBarrier ==
    /\ pc = "wait"
    /\ IF firstErr # None
       THEN pc' = "failed" /\ runErr' = firstErr
       ELSE pc' = "find" /\ runErr' = runErr
    /\ UNCHANGED <<callVars, ignoreVars, diskVars, expected, w, groupVars,
                   existing, lockVars, result, localVars, allRepos, ops, written, failures>>

\* r.Wait() returns once every started task has returned, with the first error.
Wait ==
    /\ pc = "wait"
    /\ Running = {}
    /\ IF firstErr # None
       THEN pc' = "failed" /\ runErr' = firstErr
       ELSE pc' = "find" /\ runErr' = runErr
    /\ UNCHANGED <<callVars, ignoreVars, diskVars, expected, w, groupVars,
                   existing, lockVars, result, localVars, allRepos, ops, written, failures>>

\* FindAllGitRepos without the test on the relative path of the root.
FindAllGitRepos_WithRoot ==
    /\ pc = "find"
    /\ \E ok \in Outcomes :
          /\ Charge(ok)
          /\ IF ok
             THEN /\ allRepos' = SortedPaths({p \in Nodes : disk[p] = "repo"})
                  /\ pc' = "sweep"
                  /\ runErr' = runErr
             ELSE /\ allRepos' = allRepos
                  /\ pc' = "failed"
                  /\ runErr' = "walk"
    /\ UNCHANGED <<callVars, ignoreVars, diskVars, expected, w, groupVars,
                   existing, lockVars, result, localVars, ops, written>>

\* findAllGitRepos: the directories under the root that hold a .git directory,
\* in the walk's order, the root itself left out (rel != "."). SkipDir is
\* returned for the .git directory itself, so the walk goes on through the
\* other directories of the checkout.
FindAllGitRepos ==
    /\ pc = "find"
    /\ \E ok \in Outcomes :
          /\ Charge(ok)
          /\ IF ok
             THEN /\ allRepos' = SortedPaths({p \in Nodes : disk[p] = "repo" /\ p # Root})
                  /\ pc' = "sweep"
                  /\ runErr' = runErr
             ELSE /\ allRepos' = allRepos
                  /\ pc' = "failed"
                  /\ runErr' = "walk"
    /\ UNCHANGED <<callVars, ignoreVars, diskVars, expected, w, groupVars,
                   existing, lockVars, result, localVars, ops, written>>

\* SweepStep removing every checkout the walk found, registered or not.
SweepStep_RemoveAll ==
    /\ pc = "sweep"
    /\ allRepos # <<>>
    /\ disk' = [q \in Nodes |->
                   IF Under(q, Head(allRepos)) THEN "absent" ELSE disk[q]]
    /\ result' = [result EXCEPT !.Removed = Append(@, Head(allRepos))]
    /\ allRepos' = Tail(allRepos)
    /\ UNCHANGED <<callVars, ignoreVars, cur, status, head, upstream, stash, pc,
                   runErr, failures, expected, w, groupVars, existing, lockVars,
                   localVars, ops, written>>

\* One turn of `for _, repo := range allRepos`: a checkout no worker stored in
\* `existing` is removed from disk, with all it holds, and listed as Removed.
\* os.RemoveAll of a path that is already gone returns nil.
SweepStep ==
    /\ pc = "sweep"
    /\ allRepos # <<>>
    /\ LET repo == Head(allRepos) IN
       IF repo \in existing
       THEN /\ allRepos' = Tail(allRepos)
            /\ UNCHANGED <<disk, result, pc, runErr, failures>>
       ELSE \E ok \in Outcomes :
            /\ Charge(ok)
            /\ IF ok
               THEN /\ disk' = [q \in Nodes |->
                                  IF Under(q, repo) THEN "absent" ELSE disk[q]]
                    /\ result' = [result EXCEPT !.Removed = Append(@, repo)]
                    /\ allRepos' = Tail(allRepos)
                    /\ UNCHANGED <<pc, runErr>>
               ELSE /\ pc' = "failed"
                    /\ runErr' = "remove " \o repo
                    /\ UNCHANGED <<disk, result, allRepos>>
    /\ UNCHANGED <<callVars, ignoreVars, cur, status, head, upstream, stash,
                   expected, w, groupVars, existing, lockVars, localVars, ops, written>>

(***************************************************************************)
(* updateGitignore. The file is a sequence of tokens: "S" and "E" are the   *)
(* two marker strings gitignoreStart and gitignoreEnd, "\n" a line break,  *)
(* "x" a piece of hand-written text, and "<path>/" an entry of the managed *)
(* section. Indexes are Go's: the first token is at 0.                     *)
(***************************************************************************)

gitignoreStart == "S"
gitignoreEnd == "E"
NL == "\n"

\* strings.Index(content, tok)
Index(content, tok) ==
    IF \E i \in 1..Len(content) : content[i] = tok
    THEN (CHOOSE i \in 1..Len(content) :
             content[i] = tok /\ \A j \in 1..(i - 1) : content[j] # tok) - 1
    ELSE -1

\* content[from:to]
Slice(content, from, to) == SubSeq(content, from + 1, to)

RECURSIVE PathLines(_)
PathLines(paths) ==
    IF paths = <<>> THEN <<>>
    ELSE <<Head(paths) \o "/", NL>> \o PathLines(Tail(paths))

\* The managed block built from the keys of the map, sorted.
Managed(repos) ==
    <<gitignoreStart, NL>> \o PathLines(SortedPaths(repos)) \o <<gitignoreEnd, NL>>

\* NewContent dropping what follows the block it replaces.
NewContent_DropTail(content, repos) ==
    IF Len(content) = 0 THEN Managed(repos)
    ELSE LET startIdx == Index(content, gitignoreStart)
             endIdx == Index(content, gitignoreEnd)
         IN  IF startIdx >= 0 /\ endIdx > startIdx
             THEN Slice(content, 0, startIdx) \o Managed(repos)
             ELSE LET c == IF content[Len(content)] # NL
                           THEN content \o <<NL>> ELSE content
                  IN  c \o <<NL>> \o Managed(repos)

\* NewContent appending the block right after the previous content.
NewContent_NoBlankLine(content, repos) ==
    IF Len(content) = 0 THEN Managed(repos)
    ELSE LET startIdx == Index(content, gitignoreStart)
             endIdx == Index(content, gitignoreEnd)
         IN  IF startIdx >= 0 /\ endIdx > startIdx
             THEN LET e1 == endIdx + 1
                      e2 == IF e1 < Len(content) /\ content[e1 + 1] = NL
                            THEN e1 + 1 ELSE e1
                  IN  Slice(content, 0, startIdx) \o Managed(repos)
                          \o Slice(content, e2, Len(content))
             ELSE LET c == IF content[Len(content)] # NL
                           THEN content \o <<NL>> ELSE content
                  IN  c \o Managed(repos)

\* The block replaces the region from the first start marker through the first
\* end marker (and the line break after it) when the end marker comes after the
\* start marker; otherwise it is appended after a blank line.
NewContent(content, repos) ==
    IF Len(content) = 0 THEN Managed(repos)
    ELSE LET startIdx == Index(content, gitignoreStart)
             endIdx == Index(content, gitignoreEnd)
         IN  IF startIdx >= 0 /\ endIdx > startIdx
             THEN LET e1 == endIdx + 1
                      e2 == IF e1 < Len(content) /\ content[e1 + 1] = NL
                            THEN e1 + 1 ELSE e1
                  IN  Slice(content, 0, startIdx) \o Managed(repos)
                          \o Slice(content, e2, Len(content))
             ELSE LET c == IF content[Len(content)] # NL
                           THEN content \o <<NL>> ELSE content
                  IN  c \o <<NL>> \o Managed(repos)

\* s.updateGitignore(expected), once the sweep loop is over, then `return result, nil`
\* and Sync prints the result. Reading or writing the file may fail.
UpdateGitignore ==
    /\ pc = "sweep"
    /\ allRepos = <<>>
    /\ \E ok \in Outcomes :
          /\ Charge(ok)
          /\ IF ok
             THEN /\ gitignore' = NewContent(gitignore, expected)
                  /\ ignoreExists' = TRUE
                  /\ written' = Append(written, gitignore')
                  /\ seen' = Append(seen, [exists |-> ignoreExists,
                                           content |-> gitignore])
                  /\ pc' = "done"
                  /\ runErr' = runErr
             ELSE /\ pc' = "failed"
                  /\ runErr' = "update .gitignore"
                  /\ UNCHANGED <<ignoreVars, written>>
    /\ UNCHANGED <<callVars, diskVars, expected, w, groupVars, existing,
                   lockVars, result, localVars, allRepos, ops>>

(***************************************************************************)
(* Syncer.processRepo, one task per expected path                          *)
(***************************************************************************)

\* The task returns err ("" is nil). The errgroup keeps the first non-nil error
\* and cancels the group's context.
Return(p, err) ==
    /\ w' = [w EXCEPT ![p] = "done"]
    /\ werr' = [werr EXCEPT ![p] = err]
    /\ IF err # "" /\ firstErr = None
       THEN firstErr' = err /\ ctxDone' = TRUE
       ELSE UNCHANGED <<firstErr, ctxDone>>

Log(p, names) == ops' = [ops EXCEPT ![p] = @ \o names]

\* CheckCtx going on whether the context is done or not.
CheckCtx_NoCancel(p) ==
    /\ w[p] = "ctx"
    /\ existing' = existing \cup {p}
    /\ w' = [w EXCEPT ![p] = "stat"]
    /\ UNCHANGED groupVars
    /\ UNCHANGED <<callVars, ignoreVars, diskVars, pc, expected, lockVars, result,
                   runErr, localVars, allRepos, ops, written, failures>>

\* select on ctx.Done(), then existing.Store(localPath, true).
CheckCtx(p) ==
    /\ w[p] = "ctx"
    /\ IF ctxDone
       THEN /\ Return(p, "context canceled")
            /\ UNCHANGED existing
       ELSE /\ existing' = existing \cup {p}
            /\ w' = [w EXCEPT ![p] = "stat"]
            /\ UNCHANGED groupVars
    /\ UNCHANGED <<callVars, ignoreVars, diskVars, pc, expected, lockVars, result,
                   runErr, localVars, allRepos, ops, written, failures>>

\* os.Stat(fullPath): a missing path is cloned; a path that exists must hold .git.
StatClone(p) ==
    /\ w[p] = "stat"
    /\ CASE disk[p] = "absent" ->
              \E ok \in Outcomes :
                 /\ Charge(ok)
                 /\ Log(p, <<"clone">>)
                 /\ IF ok
                    THEN /\ disk' = [disk EXCEPT ![p] = "repo"]
                         /\ cur' = [cur EXCEPT ![p] = OriginHead]
                         /\ status' = [status EXCEPT ![p] = <<>>]
                         /\ head' = [head EXCEPT ![p] = upstream[p]]
                         /\ kind' = [kind EXCEPT ![p] = "cloned"]
                         /\ w' = [w EXCEPT ![p] = "lock"]
                         /\ UNCHANGED groupVars
                    ELSE /\ Return(p, "clone " \o p)
                         /\ UNCHANGED <<disk, cur, status, head, kind>>
         [] disk[p] = "dir" ->
              /\ Return(p, p \o ": not a git repo")
              /\ UNCHANGED <<disk, cur, status, head, kind, ops, failures>>
         [] disk[p] = "repo" ->
              /\ w' = [w EXCEPT ![p] = "inspect"]
              /\ UNCHANGED <<disk, cur, status, head, kind, ops, failures, groupVars>>
    /\ UNCHANGED <<callVars, ignoreVars, upstream, stash, pc, expected,
                   existing, lockVars, result, runErr, lCurrent, lDirty, details, stashed,
                   allRepos, written>>

\* Decide testing the branch before the dirty tree.
Decide_BranchFirst(dirty, current) ==
    IF ~force
    THEN IF current # OriginHead THEN "skipbranch"
         ELSE IF dirty THEN "skipdirty"
         ELSE "pull"
    ELSE IF dirty THEN "stash"
         ELSE IF current # OriginHead THEN "switch"
         ELSE "pull"

\* Decide pulling every clean checkout, whatever its branch.
Decide_NoBranchTest(dirty, current) ==
    IF ~force
    THEN IF dirty THEN "skipdirty" ELSE "pull"
    ELSE IF dirty THEN "stash"
         ELSE IF current # OriginHead THEN "switch"
         ELSE "pull"

\* Decide with the force branch pulling at once.
Decide_ForcePull(dirty, current) ==
    IF ~force
    THEN IF dirty THEN "skipdirty"
         ELSE IF current # OriginHead THEN "skipbranch"
         ELSE "pull"
    ELSE "pull"

\* Decide with the force branch switching before it stashes.
Decide_SwitchFirst(dirty, current) ==
    IF ~force
    THEN IF dirty THEN "skipdirty"
         ELSE IF current # OriginHead THEN "skipbranch"
         ELSE "pull"
    ELSE IF current # OriginHead THEN "switch"
         ELSE IF dirty THEN "stash"
         ELSE "pull"

\* What processRepo does with an inspected checkout: without force a dirty tree
\* is tested first, then the branch; with force the same two tests choose the
\* first of stash, switch and pull.
Decide(dirty, current) ==
    IF ~force
    THEN IF dirty THEN "skipdirty"
         ELSE IF current # OriginHead THEN "skipbranch"
         ELSE "pull"
    ELSE IF dirty THEN "stash"
         ELSE IF current # OriginHead THEN "switch"
         ELSE "pull"

\* repo.DefaultBranch(), repo.CurrentBranch(), repo.HasUncommittedChanges(): `o`
\* names the first of them that fails, "ok" when none does.
InspectOutcomes ==
    IF failures < MaxFailures THEN {"ok", "default", "current", "dirty"} ELSE {"ok"}

Inspect(p) ==
    /\ w[p] = "inspect"
    /\ \E o \in InspectOutcomes :
          /\ failures' = IF o = "ok" THEN failures ELSE failures + 1
          /\ CASE o = "default" ->
                    /\ Log(p, <<"symbolic-ref">>)
                    /\ Return(p, p \o ": get default branch")
                    /\ UNCHANGED <<kind, lCurrent, lDirty>>
               [] o = "current" ->
                    /\ Log(p, <<"symbolic-ref", "branch">>)
                    /\ Return(p, p \o ": get current branch")
                    /\ UNCHANGED <<kind, lCurrent, lDirty>>
               [] o = "dirty" ->
                    /\ Log(p, <<"symbolic-ref", "branch", "status">>)
                    /\ Return(p, p \o ": check uncommitted changes")
                    /\ UNCHANGED <<kind, lCurrent, lDirty>>
               [] o = "ok" ->
                    LET dirty == status[p] # <<>>
                        d == Decide(dirty, cur[p])
                    IN  /\ Log(p, <<"symbolic-ref", "branch", "status">>)
                        /\ lCurrent' = [lCurrent EXCEPT ![p] = cur[p]]
                        /\ lDirty' = [lDirty EXCEPT ![p] = dirty]
                        /\ IF d \in {"skipdirty", "skipbranch"}
                           THEN /\ kind' = [kind EXCEPT ![p] = d]
                                /\ w' = [w EXCEPT ![p] = "lock"]
                           ELSE /\ kind' = kind
                                /\ w' = [w EXCEPT ![p] = d]
                        /\ UNCHANGED groupVars
    /\ UNCHANGED <<callVars, ignoreVars, diskVars, pc, expected, existing, lockVars,
                   result, runErr, details, stashed, allRepos, written>>

\* A porcelain line "??": a file git does not track.
IsUntracked(code) == code = <<"?", "?">>
IsTracked(code) == ~IsUntracked(code)

\* repo.Stash(): `git stash push -m gitjoin`, without --include-untracked, saves
\* the changes to tracked files and leaves the untracked files in the tree; with
\* no change to a tracked file it saves nothing and still exits with 0.
Stash(p) ==
    /\ w[p] = "stash"
    /\ Log(p, <<"stash">>)
    /\ \E ok \in Outcomes :
          /\ Charge(ok)
          /\ IF ok
             THEN /\ stash' = IF SelectSeq(status[p], IsTracked) = <<>> THEN stash
                              ELSE [stash EXCEPT ![p] =
                                       <<SelectSeq(status[p], IsTracked)>> \o @]
                  /\ status' = [status EXCEPT ![p] = SelectSeq(@, IsUntracked)]
                  /\ stashed' = [stashed EXCEPT ![p] = TRUE]
                  /\ details' = [details EXCEPT ![p] = Append(@, "stashed")]
                  /\ w' = [w EXCEPT ![p] =
                              IF lCurrent[p] # OriginHead THEN "switch" ELSE "pull"]
                  /\ UNCHANGED groupVars
             ELSE /\ Return(p, p \o ": stash")
                  /\ UNCHANGED <<stash, status, stashed, details>>
    /\ UNCHANGED <<callVars, ignoreVars, disk, cur, head, upstream, pc,
                   expected, existing, lockVars, result, runErr, kind, lCurrent, lDirty,
                   allRepos, written>>

\* repo.SwitchBranch(defaultBranch)
SwitchBranch(p) ==
    /\ w[p] = "switch"
    /\ Log(p, <<"switch">>)
    /\ \E ok \in Outcomes :
          /\ Charge(ok)
          /\ IF ok
             THEN /\ cur' = [cur EXCEPT ![p] = OriginHead]
                  /\ details' = [details EXCEPT ![p] =
                                    Append(@, "switched to " \o OriginHead)]
                  /\ w' = [w EXCEPT ![p] = "pull"]
                  /\ UNCHANGED groupVars
             ELSE /\ Return(p, p \o ": switch branch")
                  /\ UNCHANGED <<cur, details>>
    /\ UNCHANGED <<callVars, ignoreVars, disk, status, head, upstream, stash,
                   pc, expected, existing, lockVars, result, runErr, kind, lCurrent,
                   lDirty, stashed, allRepos, written>>

\* AfterPull recording the checkout whatever the trail holds.
AfterPull_AlwaysRecord(p, trail) ==
    IF ~force
    THEN "lock"
    ELSE IF stashed[p] THEN "unstash" ELSE "lock"

\* Where processRepo goes after a pull that succeeded: without force a changed
\* head is recorded; with force the stash is restored first, and the checkout is
\* recorded when the detail trail is not empty.
AfterPull(p, trail) ==
    IF ~force
    THEN IF trail # <<>> THEN "lock" ELSE "done"
    ELSE IF stashed[p] THEN "unstash"
         ELSE IF trail # <<>> THEN "lock" ELSE "done"

\* Pull reporting a change whenever the pull succeeded.
Changed_Always(headBefore, headAfter) == TRUE

\* return headBefore != headAfter, nil
Changed(headBefore, headAfter) == headBefore # headAfter

\* repo.Pull(): changed reports whether HEAD moved.
Pull(p) ==
    /\ w[p] = "pull"
    /\ Log(p, <<"pull">>)
    /\ \E ok \in Outcomes :
          /\ Charge(ok)
          /\ IF ok
             THEN LET changed == Changed(head[p], upstream[p])
                      trail == IF changed THEN Append(details[p], "pulled")
                               ELSE details[p]
                      to == AfterPull(p, trail)
                  IN  /\ head' = [head EXCEPT ![p] = upstream[p]]
                      /\ details' = [details EXCEPT ![p] = trail]
                      /\ kind' = [kind EXCEPT ![p] =
                                     IF to = "lock" THEN "updated" ELSE @]
                      /\ IF to = "done"
                         THEN Return(p, "")
                         ELSE w' = [w EXCEPT ![p] = to] /\ UNCHANGED groupVars
             ELSE /\ Return(p, p \o ": pull")
                  /\ UNCHANGED <<head, details, kind>>
    /\ UNCHANGED <<callVars, ignoreVars, disk, cur, status, upstream, stash,
                   pc, expected, existing, lockVars, result, runErr, lCurrent, lDirty,
                   stashed, allRepos, written>>

\* repo.Unstash(): `git stash pop` puts the changes of the newest stash entry
\* back; with no entry it fails, and when it fails the stash is as it was.
Unstash(p) ==
    /\ w[p] = "unstash"
    /\ Log(p, <<"unstash">>)
    /\ \E ok \in (IF stash[p] = <<>> THEN {FALSE} ELSE Outcomes) :
          /\ failures' = IF ok \/ stash[p] = <<>> THEN failures ELSE failures + 1
          /\ IF ok
             THEN /\ status' = [status EXCEPT ![p] = Head(stash[p]) \o @]
                  /\ stash' = [stash EXCEPT ![p] = Tail(@)]
                  /\ details' = [details EXCEPT ![p] = Append(@, "unstashed")]
                  /\ kind' = [kind EXCEPT ![p] = "updated"]
                  /\ w' = [w EXCEPT ![p] = "lock"]
                  /\ UNCHANGED groupVars
             ELSE /\ Return(p, p \o ": unstash")
                  /\ UNCHANGED <<status, stash, details, kind>>
    /\ UNCHANGED <<callVars, ignoreVars, disk, cur, head, upstream, pc,
                   expected, existing, lockVars, result, runErr, lCurrent, lDirty,
                   stashed, allRepos, written>>

\* Lock returning at once, whoever holds the mutex.
Lock_NoMutex(p) ==
    /\ w[p] = "lock"
    /\ mu' = p
    /\ w' = [w EXCEPT ![p] = "read"]
    /\ UNCHANGED <<callVars, ignoreVars, diskVars, pc, expected, groupVars,
                   existing, snap, result, runErr, localVars, allRepos, ops,
                   written, failures>>

\* mu.Lock()
Lock(p) ==
    /\ w[p] = "lock"
    /\ mu = None
    /\ mu' = p
    /\ w' = [w EXCEPT ![p] = "read"]
    /\ UNCHANGED <<callVars, ignoreVars, diskVars, pc, expected, groupVars,
                   existing, snap, result, runErr, localVars, allRepos, ops,
                   written, failures>>

\* The entry a task appends, and the bucket it goes to. summaryOk is whether the
\* `git status` of ChangesSummary succeeded.
Entry(p, summaryOk) ==
    CASE kind[p] = "cloned" ->
           [bucket |-> "Cloned", entry |-> [Path |-> p, Detail |-> ""]]
      [] kind[p] = "skipdirty" ->
           [bucket |-> "Skipped",
            entry |-> [Path |-> p, Reason |-> "uncommitted changes",
                       Detail |-> ChangesSummary(status[p], summaryOk)]]
      [] kind[p] = "skipbranch" ->
           [bucket |-> "Skipped",
            entry |-> [Path |-> p, Reason |-> "non-default branch",
                       Detail |-> "on " \o lCurrent[p]]]
      [] kind[p] = "updated" ->
           [bucket |-> "Updated",
            entry |-> [Path |-> p, Detail |-> Join(details[p], ", ")]]

\* append(result.X, ...) reads the slice result.X holds before it builds the
\* longer one.
ReadBucket(p) ==
    /\ w[p] = "read"
    /\ snap' = [snap EXCEPT ![p] = result[Entry(p, TRUE).bucket]]
    /\ w' = [w EXCEPT ![p] = "append"]
    /\ UNCHANGED <<callVars, ignoreVars, diskVars, pc, expected, groupVars,
                   existing, mu, result, runErr, localVars, allRepos, ops,
                   written, failures>>

\* result.X = <the slice read, with the entry appended>; mu.Unlock(); return nil
AppendResult(p) ==
    /\ w[p] = "append"
    /\ \E ok \in (IF kind[p] = "skipdirty" THEN Outcomes ELSE {TRUE}) :
          /\ Charge(ok)
          /\ Log(p, IF kind[p] = "skipdirty" THEN <<"summary">> ELSE <<>>)
          /\ LET e == Entry(p, ok)
             IN  result' = [result EXCEPT ![e.bucket] = Append(snap[p], e.entry)]
    /\ snap' = [snap EXCEPT ![p] = <<>>]
    /\ mu' = None
    /\ Return(p, "")
    /\ UNCHANGED <<callVars, ignoreVars, diskVars, pc, expected, existing,
                   runErr, localVars, allRepos, written>>

Worker(p) ==
    \/ CheckCtx(p)
    \/ StatClone(p)
    \/ Inspect(p)
    \/ Stash(p)
    \/ SwitchBranch(p)
    \/ Pull(p)
    \/ Unstash(p)
    \/ Lock(p)
    \/ ReadBucket(p)
    \/ AppendResult(p)

\* Sync has returned (the report printed, or the error handed to main) and the
\* command is run again on the tree as it is now, with the same flags and manifests.
SyncAgain ==
    /\ pc \in {"done", "failed"}
    /\ runs < MaxRuns
    /\ runs' = runs + 1
    /\ headAtStart' = head
    /\ diskAtStart' = disk
    /\ prevPulled' = {p \in Paths : /\ w[p] = "done" /\ werr[p] = ""
                                    /\ \E i \in 1..Len(ops[p]) : ops[p][i] = "pull"}
    /\ pc' = "collect"
    /\ expected' = {}
    /\ w' = [p \in Paths |-> "idle"]
    /\ werr' = [p \in Paths |-> ""]
    /\ ctxDone' = FALSE
    /\ firstErr' = None
    /\ existing' = {}
    /\ result' = EmptyResult
    /\ runErr' = None
    /\ kind' = [p \in Paths |-> None]
    /\ lCurrent' = [p \in Paths |-> ""]
    /\ lDirty' = [p \in Paths |-> FALSE]
    /\ details' = [p \in Paths |-> <<>>]
    /\ stashed' = [p \in Paths |-> FALSE]
    /\ allRepos' = <<>>
    /\ ops' = [p \in Paths |-> <<>>]
    /\ UNCHANGED <<force, manifest, filter, ignoreVars, diskVars, lockVars, written,
                   failures>>

Next ==
    \/ Collect
    \/ \E p \in Paths : Dispatch(p)
    \/ EndDispatch
    \/ \E p \in Paths : Worker(p)
    \/ Wait
    \/ FindAllGitRepos
    \/ SweepStep
    \/ UpdateGitignore

\* One call of Sync.
Spec == Init /\ [][Next]_vars

\* Sync called up to MaxRuns times in a row, on a tree without stray checkouts
\* whose dirty checkouts have one modified file.
InitTwice ==
    /\ Init
    /\ \A p \in Strays : disk[p] = "absent"
    /\ \A p \in Paths : status[p] \in {<<>>, << <<" ", "M">> >>}
NextTwice == Next \/ SyncAgain
SpecTwice == InitTwice /\ [][NextTwice]_vars

\* updateGitignore alone, called up to MaxRuns times with the same map, on every
\* file of at most MaxLen tokens: the state is the one run is in when its sweep
\* loop is over, every expected path being a checkout its task left alone.
Tokens == {gitignoreStart, gitignoreEnd, NL, "x"}
Contents == UNION {[1..n -> Tokens] : n \in 0..MaxLen}

InitIgnore ==
    /\ force = FALSE
    /\ manifest \in SUBSET RootLines
    /\ filter = <<>>
    /\ gitignore \in Contents
    /\ ignoreExists \in BOOLEAN
    /\ ~ignoreExists => gitignore = <<>>
    /\ disk = [p \in Nodes |-> IF p \in Declared THEN "repo"
                                ELSE IF p = Root THEN "dir" ELSE "absent"]
    /\ cur = [p \in Paths |-> OriginHead]
    /\ status = [p \in Paths |-> <<>>]
    /\ upstream = [p \in Paths |-> 0]
    /\ head = [p \in Paths |-> 0]
    /\ stash = [p \in Paths |-> <<>>]
    /\ pc = "sweep"
    /\ expected = Declared
    /\ w = [p \in Paths |-> IF p \in Declared THEN "done" ELSE "idle"]
    /\ werr = [p \in Paths |-> ""]
    /\ ctxDone = FALSE
    /\ firstErr = None
    /\ existing = Declared
    /\ mu = None
    /\ snap = [p \in Paths |-> <<>>]
    /\ result = EmptyResult
    /\ runErr = None
    /\ kind = [p \in Paths |-> None]
    /\ lCurrent = [p \in Paths |-> IF p \in Declared THEN OriginHead ELSE ""]
    /\ lDirty = [p \in Paths |-> FALSE]
    /\ details = [p \in Paths |-> <<>>]
    /\ stashed = [p \in Paths |-> FALSE]
    /\ allRepos = <<>>
    /\ ops = [p \in Paths |-> IF p \in Declared
                                THEN <<"symbolic-ref", "branch", "status", "pull">>
                                ELSE <<>>]
    /\ written = <<>>
    /\ seen = <<>>
    /\ runs = 1
    /\ headAtStart = head
    /\ diskAtStart = disk
    /\ prevPulled = {}
    /\ failures = 0

\* The next call of Sync reaches the end of its sweep loop with the same map.
UpdateAgain ==
    /\ pc = "done"
    /\ runs < MaxRuns
    /\ runs' = runs + 1
    /\ pc' = "sweep"
    /\ UNCHANGED <<force, manifest, filter, headAtStart, diskAtStart, prevPulled,
                   ignoreVars,
                   diskVars, expected, w, groupVars, existing, lockVars, result, runErr,
                   localVars, allRepos, ops, written, failures>>

NextIgnore == UpdateGitignore \/ UpdateAgain
SpecIgnore == InitIgnore /\ [][NextIgnore]_vars

\* collectExpectedRepos alone, on every set of manifest lines and every filter of
\* at most MaxPat characters.
PatternChars == {"*", "?", "[", Separator, "a", "n"}
Patterns == UNION {[1..n -> PatternChars] : n \in 0..MaxPat}

InitCollect ==
    /\ force = FALSE
    /\ manifest \in SUBSET AllLines
    /\ filter \in Patterns
    /\ gitignore = <<>>
    /\ ignoreExists = FALSE
    /\ disk = [p \in Nodes |-> IF p = Root THEN "dir" ELSE "absent"]
    /\ cur = [p \in Paths |-> OriginHead]
    /\ status = [p \in Paths |-> <<>>]
    /\ upstream = [p \in Paths |-> 0]
    /\ head = [p \in Paths |-> 0]
    /\ stash = [p \in Paths |-> <<>>]
    /\ pc = "collect"
    /\ expected = {}
    /\ w = [p \in Paths |-> "idle"]
    /\ werr = [p \in Paths |-> ""]
    /\ ctxDone = FALSE
    /\ firstErr = None
    /\ existing = {}
    /\ mu = None
    /\ snap = [p \in Paths |-> <<>>]
    /\ result = EmptyResult
    /\ runErr = None
    /\ kind = [p \in Paths |-> None]
    /\ lCurrent = [p \in Paths |-> ""]
    /\ lDirty = [p \in Paths |-> FALSE]
    /\ details = [p \in Paths |-> <<>>]
    /\ stashed = [p \in Paths |-> FALSE]
    /\ allRepos = <<>>
    /\ ops = [p \in Paths |-> <<>>]
    /\ written = <<>>
    /\ seen = <<>>
    /\ runs = 1
    /\ headAtStart = head
    /\ diskAtStart = disk
    /\ prevPulled = {}
    /\ failures = 0

NextCollect == Collect
SpecCollect == InitCollect /\ [][NextCollect]_vars

\* The scan and the sweep alone, from the state run is in when r.Wait has
\* returned nil: every declared path is a checkout on its default branch and is
\* registered; the root is a plain directory or a checkout itself, and any other
\* directory is absent or a checkout.
InitSweep ==
    /\ force = FALSE
    /\ manifest \in SUBSET RootLines
    /\ filter = <<>>
    /\ gitignore = <<>>
    /\ ignoreExists = FALSE
    /\ disk \in [Nodes -> {"absent", "dir", "repo"}]
    /\ disk[Root] # "absent"
    /\ \A p \in Declared : disk[p] = "repo"
    /\ \A p \in Paths \ Declared : disk[p] # "dir"
    /\ \A p \in Nested : disk[p] = "repo" => disk[Parent(p)] = "repo"
    /\ cur = [p \in Paths |-> OriginHead]
    /\ status = [p \in Paths |-> <<>>]
    /\ upstream = [p \in Paths |-> 0]
    /\ head = [p \in Paths |-> 0]
    /\ stash = [p \in Paths |-> <<>>]
    /\ pc = "find"
    /\ expected = Declared
    /\ w = [p \in Paths |-> IF p \in Declared THEN "done" ELSE "idle"]
    /\ werr = [p \in Paths |-> ""]
    /\ ctxDone = FALSE
    /\ firstErr = None
    /\ existing = Declared
    /\ mu = None
    /\ snap = [p \in Paths |-> <<>>]
    /\ result = EmptyResult
    /\ runErr = None
    /\ kind = [p \in Paths |-> None]
    /\ lCurrent = [p \in Paths |-> IF p \in Declared THEN OriginHead ELSE ""]
    /\ lDirty = [p \in Paths |-> FALSE]
    /\ details = [p \in Paths |-> <<>>]
    /\ stashed = [p \in Paths |-> FALSE]
    /\ allRepos = <<>>
    /\ ops = [p \in Paths |-> IF p \in Declared
                                THEN <<"symbolic-ref", "branch", "status", "pull">>
                                ELSE <<>>]
    /\ written = <<>>
    /\ seen = <<>>
    /\ runs = 1
    /\ headAtStart = head
    /\ diskAtStart = disk
    /\ prevPulled = {}
    /\ failures = 0

NextSweep == FindAllGitRepos \/ SweepStep \/ UpdateGitignore
SpecSweep == InitSweep /\ [][NextSweep]_vars

(***************************************************************************)
(* Properties                                                              *)
(***************************************************************************)

HasOp(p, name) == \E i \in 1..Len(ops[p]) : ops[p][i] = name
IsPrefix(s, t) == Len(s) <= Len(t) /\ SubSeq(t, 1, Len(s)) = s
\* Every bucket entry of path p, as a set of <<bucket, index>>.
Entries(p) ==
    {<<b, i>> \in {"Updated", "Cloned", "Skipped"} \X (1..(2 * Cardinality(Paths))) :
        i <= Len(result[b]) /\ result[b][i].Path = p}
BackendErrors(p) ==
    {p \o ": get default branch", p \o ": get current branch",
     p \o ": check uncommitted changes", p \o ": stash", p \o ": switch branch",
     p \o ": pull"}
\* The task of p ran to its end in this call and inspected the checkout.
Inspected(p) == w[p] = "done" /\ lCurrent[p] # ""

\* C1: in a run where the clone of an expected repository R fails, the run is
\* not aborted, every other expected repository is processed to an outcome of its
\* own (its task is neither dropped nor cancelled), and R is not listed as Removed.
C1_CloneFailureIsolated ==
    \A r \in expected :
       (w[r] = "done" /\ werr[r] = "clone " \o r) =>
          /\ pc # "failed"
          /\ \A i \in 1..Len(result.Removed) : result.Removed[i] # r
          /\ pc = "done" =>
                \A q \in expected \ {r} :
                   w[q] = "done" /\ werr[q] # "context canceled"

\* C2: a failure of inspection, stash, switch or pull on an expected repository
\* is recorded as a Warning and the run is not aborted by it: it never ends with
\* that failure as its error.
C2_BackendFailureNotFatal ==
    \A p \in expected :
       (w[p] = "done" /\ werr[p] \in BackendErrors(p)) =>
          /\ Len(result.Warnings) > 0
          /\ ~(pc = "failed" /\ runErr \in BackendErrors(p))

ForceTrail == <<"stashed", "switched to " \o OriginHead, "pulled", "unstashed">>
ForceOps == <<"symbolic-ref", "branch", "status", "stash", "switch", "pull", "unstash">>
TrailPos(d) == CHOOSE i \in 1..Len(ForceTrail) : ForceTrail[i] = d
\* trail lists entries of ForceTrail in ForceTrail's order.
InTrailOrder(trail) ==
    /\ \A i \in 1..Len(trail) : \E k \in 1..Len(ForceTrail) : ForceTrail[k] = trail[i]
    /\ \A i, j \in 1..Len(trail) : i < j => TrailPos(trail[i]) < TrailPos(trail[j])

\* C3: with force, on a checkout found dirty and off the default branch, the
\* backend operations are issued in the order stash, switch, pull, unstash (each
\* only after the ones before it), the detail trail lists the steps in that
\* order, and the Updated entry carries that trail.
C3_ForceOrder ==
    \A p \in Paths :
       (force /\ lDirty[p] /\ lCurrent[p] \notin {"", OriginHead}) =>
          /\ IsPrefix(ops[p], ForceOps)
          /\ InTrailOrder(details[p])
          /\ \A i \in 1..Len(result.Updated) :
                result.Updated[i].Path = p =>
                   result.Updated[i].Detail \in
                      {"stashed, switched to main, pulled, unstashed",
                       "stashed, switched to main, unstashed"}

C3_Witness ==
    \E p \in Paths :
       /\ force /\ lDirty[p] /\ lCurrent[p] = "dev"
       /\ ops[p] = ForceOps
       /\ \E i \in 1..Len(result.Updated) :
             result.Updated[i] =
                [Path |-> p, Detail |-> "stashed, switched to main, pulled, unstashed"]

\* C4: with force, when stash succeeded and unstash fails, the repository still
\* gets an Updated entry holding the steps done so far (without "unstashed"), a
\* Warning is added, the stash entry is still there, and the run is not aborted.
C4_UnstashFailureIsWarning ==
    \A p \in expected :
       (force /\ w[p] = "done" /\ werr[p] = p \o ": unstash") =>
          /\ Len(stash[p]) > 0
          /\ \E i \in 1..Len(result.Updated) :
                /\ result.Updated[i].Path = p
                /\ result.Updated[i].Detail = Join(details[p], ", ")
          /\ Len(result.Warnings) > 0
          /\ pc # "failed"

\* C5: without force, no pull, stash or switch is ever issued against a checkout
\* whose tree is dirty, and a checkout its task found dirty gets exactly one
\* entry: Skipped, reason "uncommitted changes", the detail being what
\* ChangesSummary returns ("no changes" when its own status call failed),
\* whatever branch it is on.
C5_SkipDirty ==
    ~force =>
       \A p \in Paths :
          /\ (disk[p] = "repo" /\ status[p] # <<>>) =>
                ~HasOp(p, "pull") /\ ~HasOp(p, "stash") /\ ~HasOp(p, "switch")
          /\ (Inspected(p) /\ lDirty[p]) =>
                \E i \in 1..Len(result.Skipped) :
                   /\ Entries(p) = {<<"Skipped", i>>}
                   /\ result.Skipped[i].Reason = "uncommitted changes"
                   /\ result.Skipped[i].Detail \in
                         {ChangesSummary(status[p], TRUE), ChangesSummary(status[p], FALSE)}

C5_Witness ==
    /\ ~force
    /\ \E p \in Paths :
          /\ Inspected(p) /\ lDirty[p] /\ lCurrent[p] = "dev"
          /\ \E i \in 1..Len(result.Skipped) :
                result.Skipped[i] =
                   [Path |-> p, Reason |-> "uncommitted changes",
                    Detail |-> "1 added, 1 deleted"]

\* C6 as stated: without force, a checkout found clean and off the default
\* branch gets a Skipped entry, reason non-default branch, whose detail is the
\* current branch name, and no pull or switch is issued against it.
C6_DetailIsBranchName ==
    ~force =>
       \A p \in Paths :
          (Inspected(p) /\ ~lDirty[p] /\ lCurrent[p] # OriginHead) =>
             /\ \E i \in 1..Len(result.Skipped) :
                   /\ result.Skipped[i].Path = p
                   /\ result.Skipped[i].Reason = "non-default branch"
                   /\ result.Skipped[i].Detail = lCurrent[p]
             /\ ~HasOp(p, "pull") /\ ~HasOp(p, "switch")

\* C6 as amended: the detail is "on " followed by the current branch name; the
\* Skipped entry is the only entry of the checkout, and no pull, stash or switch
\* is issued against it.
C6_SkipNonDefault ==
    ~force =>
       \A p \in Paths :
          /\ (lCurrent[p] \notin {"", OriginHead} /\ ~lDirty[p]) =>
                ~HasOp(p, "pull") /\ ~HasOp(p, "stash") /\ ~HasOp(p, "switch")
          /\ (Inspected(p) /\ ~lDirty[p] /\ lCurrent[p] # OriginHead) =>
                \E i \in 1..Len(result.Skipped) :
                   /\ Entries(p) = {<<"Skipped", i>>}
                   /\ result.Skipped[i].Reason = "non-default branch"
                   /\ result.Skipped[i].Detail = "on " \o lCurrent[p]

C6_Witness ==
    /\ ~force
    /\ \E p \in Paths :
          /\ Inspected(p) /\ ~lDirty[p] /\ cur[p] = "dev"
          /\ \E i \in 1..Len(result.Skipped) :
                result.Skipped[i] =
                   [Path |-> p, Reason |-> "non-default branch", Detail |-> "on dev"]

\* C7: a checkout found clean and on its default branch has an
\* Updated(detail "pulled") entry exactly when the pull moved its head, and no
\* other entry; and in a second call of Sync in a row, a checkout the first call
\* pulled, still clean and on its default branch, gets no entry at all.
C7_PulledIffHeadChanged ==
    \A p \in Paths :
       /\ (Inspected(p) /\ ~lDirty[p] /\ lCurrent[p] = OriginHead) =>
             /\ (\E i \in 1..Len(result.Updated) :
                    result.Updated[i] = [Path |-> p, Detail |-> "pulled"])
                <=> head[p] # headAtStart[p]
             /\ \A e \in Entries(p) :
                   e[1] = "Updated" /\ result.Updated[e[2]].Detail = "pulled"
             /\ Cardinality(Entries(p)) <= 1
       /\ (runs >= 2 /\ p \in prevPulled /\ lCurrent[p] = OriginHead /\ ~lDirty[p]) =>
             Entries(p) = {}

C7_Witness ==
    \E p \in Paths :
       /\ runs = 2 /\ p \in prevPulled /\ upstream[p] = 1
       /\ Inspected(p) /\ ~lDirty[p] /\ lCurrent[p] = OriginHead
       /\ HasOp(p, "pull") /\ werr[p] = ""
       /\ pc = "done"

\* The checkouts on disk when the call began that the Expected Set does not hold.
Orphans == {p \in Paths : diskAtStart[p] = "repo" /\ p \notin expected}
RemovedSet == {result.Removed[i] : i \in 1..Len(result.Removed)}

\* C8: when a run has completed, the checkouts deleted from disk and the Removed
\* list (without repetition) are both exactly the on-disk checkouts that are not
\* keys of the Expected Set, and every checkout that is a key is still there.
C8_OrphansRemoved ==
    /\ pc = "done" =>
          /\ RemovedSet = Orphans
          /\ Len(result.Removed) = Cardinality(Orphans)
          /\ {p \in Paths : diskAtStart[p] = "repo" /\ disk[p] # "repo"} = Orphans
    /\ \A p \in expected : diskAtStart[p] = "repo" => disk[p] = "repo"
    /\ RemovedSet \subseteq Orphans

C8_Witness ==
    /\ pc = "done"
    /\ expected = Declarable
    /\ \A p \in Declarable : diskAtStart[p] = "repo"
    /\ result.Removed = <<PathNames[3]>>
    /\ disk[PathNames[3]] = "absent"

\* C9: the sweep (the scan and every deletion) starts only after every task has
\* returned, and then the paths the tasks stored are exactly the keys of the
\* Expected Set; a repository cloned in a run is neither deleted nor listed as
\* Removed in that run.
C9_SweepAfterWorkers ==
    /\ (pc \in {"find", "sweep", "done"} \/ result.Removed # <<>>) =>
          /\ \A p \in Paths : w[p] \in {"idle", "done"}
          /\ \A p \in expected : w[p] = "done"
          /\ existing = expected
    /\ \A p \in Paths :
          (diskAtStart[p] = "absent" /\ HasOp(p, "clone") /\ kind[p] = "cloned") =>
             disk[p] = "repo" /\ p \notin RemovedSet

C9_Witness ==
    /\ pc = "done"
    /\ result.Removed # <<>>
    /\ \E p \in expected :
          /\ diskAtStart[p] = "absent"
          /\ disk[p] = "repo"
          /\ \E i \in 1..Len(result.Cloned) : result.Cloned[i].Path = p

\* C10: whatever the file held, a second call of updateGitignore with the same
\* Expected Set writes the content the first call wrote.
C10_IgnoreIdempotent ==
    Len(written) >= 2 => written[2] = written[1]

Markers == {gitignoreStart, gitignoreEnd}
NoMarker(c) == \A i \in 1..Len(c) : c[i] \notin Markers
\* The lines of the block, written out: the start marker line, one line per key
\* in the order of the paths, the end marker line.
BlockOf(keys) ==
    LET n == Cardinality(keys)
        nth(k) == CHOOSE p \in keys :
                     Cardinality({q \in keys : PathIndex(q) < PathIndex(p)}) = k - 1
    IN  [i \in 1..(2 * n + 4) |->
            IF i = 1 THEN gitignoreStart
            ELSE IF i = 2 * n + 3 THEN gitignoreEnd
            ELSE IF i % 2 = 0 THEN NL
            ELSE nth((i - 1) \div 2) \o "/"]
\* t occurs in c as a run of consecutive tokens.
Occurs(t, c) ==
    \E k \in 0..(Len(c) - Len(t)) : SubSeq(c, k + 1, k + Len(t)) = t

\* C11: when the file read holds one managed block (a start marker, later an end
\* marker) with hand-written content, free of markers, before and after it, the
\* file written is the content before the start marker, the new block, and the
\* content after the end-marker line, each of the two unchanged.
C11_HandWrittenPreserved ==
    \A i \in 1..Len(written) :
       LET c == seen[i].content IN
       \A a, b \in 1..Len(c) :
          (/\ a < b /\ c[a] = gitignoreStart /\ c[b] = gitignoreEnd
           /\ \A j \in 1..Len(c) : j \notin {a, b} => c[j] \notin Markers) =>
             LET after == IF b < Len(c) /\ c[b + 1] = NL THEN b + 1 ELSE b
             IN  written[i] = SubSeq(c, 1, a - 1) \o BlockOf(expected)
                                 \o SubSeq(c, after + 1, Len(c))

C11_Witness ==
    /\ Len(written) >= 1
    /\ seen[1].content = <<"x", NL, gitignoreStart, NL, gitignoreEnd, NL, "x">>
    /\ expected = Declarable
    /\ written[1] = <<"x", NL, gitignoreStart, NL, "a/", NL, "b/", NL,
                      gitignoreEnd, NL, "x">>

\* The local path a manifest line stands for: the directory of its manifest,
\* relative to the root, joined with the last name of the identifier.
DerivedPath(l) == Join(l.dir \o <<l.repo[Len(l.repo)]>>, "/")
DerivedChars(l) == Chars(l.dir \o <<l.repo[Len(l.repo)]>>)

\* C12: once collectExpectedRepos has returned its map, the keys are exactly the
\* local paths derived from the manifest lines that match the filter, and with
\* no filter the local paths of all the lines.
C12_FilterCorrect ==
    pc = "dispatch" =>
       /\ \A l \in manifest :
             DerivedPath(l) \in expected
                <=> (filter = <<>> \/ Match(filter, DerivedChars(l)))
       /\ expected \subseteq {DerivedPath(l) : l \in manifest}
       /\ filter = <<>> => expected = {DerivedPath(l) : l \in manifest}

C12_Witness ==
    /\ pc = "dispatch"
    /\ manifest = AllLines
    /\ filter = <<"a", Separator, "*">>
    /\ expected = {"a/n"}

\* The tasks between mu.Lock() and mu.Unlock().
InAppend == {p \in Paths : w[p] \in {"read", "append"}}

\* C13: at most one task at a time is appending to the report, and it holds the
\* mutex; the entry of every task that returned nil after deciding to record one
\* is in the report, once.
C13_NoLostEntries ==
    /\ Cardinality(InAppend) <= 1
    /\ \A p \in InAppend : mu = p
    /\ \A p \in Paths :
          (w[p] = "done" /\ werr[p] = "" /\ kind[p] # None) =>
             Cardinality(Entries(p)) = 1

C13_Witness ==
    /\ pc = "done"
    /\ Len(result.Cloned) = 2
    /\ \A p \in Declarable : Cardinality(Entries(p)) = 1

\* The errors a task of p can end with, which are the texts a Warning about p
\* would carry.
ErrorsOf(p) ==
    BackendErrors(p) \cup {"clone " \o p, p \o ": not a git repo", p \o ": unstash"}
\* The Repository Outcomes of p in the report: its bucket entries and Warnings.
OutcomesOf(p) ==
    Entries(p) \cup
       {<<"Warnings", i>> : i \in {j \in 1..Len(result.Warnings) :
                                     result.Warnings[j] \in ErrorsOf(p)}}

\* C14 as stated: when a run has completed, every key of the Expected Set has
\* exactly one Repository Outcome in the report.
C14_OneOutcomePerKey ==
    pc = "done" => \A p \in expected : Cardinality(OutcomesOf(p)) = 1

\* C14 as amended: when a run has completed, every key has at most one outcome,
\* and none exactly when its checkout was pulled with nothing to record (no
\* stash, no switch, head unchanged); no outcome is about a path outside the
\* Expected Set.
C14_AtMostOneOutcomePerKey ==
    pc = "done" =>
       /\ \A p \in expected :
             /\ Cardinality(OutcomesOf(p)) <= 1
             /\ OutcomesOf(p) = {} <=>
                   (HasOp(p, "pull") /\ details[p] = <<>> /\ head[p] = headAtStart[p])
       /\ \A p \in Paths \ expected : OutcomesOf(p) = {}

C14_Witness ==
    /\ pc = "done"
    /\ \E p, q \in expected :
          /\ OutcomesOf(p) = {} /\ HasOp(p, "pull")
          /\ Cardinality(OutcomesOf(q)) = 1

\* Nothing has been done to the tree or put in the report, and the ignore file
\* has not been written.
Untouched ==
    /\ \A p \in Paths : ops[p] = <<>>
    /\ disk = diskAtStart
    /\ written = <<>>
    /\ result = EmptyResult

\* C15: when the filter is a malformed pattern, or the walk or the read of a
\* manifest failed, the run goes no further than the collection: it ends with an
\* error, nothing is cloned, pulled, stashed, switched or deleted, the ignore
\* file is not written and no report is printed.
C15_CollectionErrorsAbort ==
    (BadPattern(filter) \/ runErr = "collect") =>
       /\ pc \in {"collect", "failed"}
       /\ Untouched

\* The entries of a bucket are in the order of their paths.
InPathOrder(bucket) ==
    \A i, j \in 1..Len(bucket) :
       i < j => PathIndex(bucket[i].Path) < PathIndex(bucket[j].Path)

\* C16: the order of the entries of each bucket of the report printed depends
\* on the tree alone, not on which task finished first: each bucket lists its
\* paths in their order.
C16_DeterministicOrder ==
    pc = "done" =>
       /\ InPathOrder(result.Updated)
       /\ InPathOrder(result.Cloned)
       /\ InPathOrder(result.Skipped)
       /\ \A i, j \in 1..Len(result.Removed) :
             i < j => PathIndex(result.Removed[i]) < PathIndex(result.Removed[j])

\* The checkouts on disk when the call began that are no longer there.
Deleted == {p \in Paths : diskAtStart[p] = "repo" /\ disk[p] # "repo"}

\* C17: every checkout deleted or listed as Removed is one no manifest
\* declares, with or without a filter.
C17_OnlyOrphansDeleted ==
    \A p \in Deleted \cup RemovedSet : p \notin Declared

\* C18 as stated: the file written holds the block; it is exactly the block when
\* the file did not exist; when the file existed without markers it is the
\* previous content, a blank line and the block.
C18_BlockPlacement ==
    \A i \in 1..Len(written) :
       LET c == seen[i].content
           block == BlockOf(expected)
           ended == IF c = <<>> \/ c[Len(c)] = NL THEN c ELSE c \o <<NL>>
       IN  /\ Occurs(block, written[i])
           /\ ~seen[i].exists => written[i] = block
           /\ (seen[i].exists /\ NoMarker(c)) =>
                 written[i] = ended \o <<NL>> \o block

\* C18 as amended: a file that exists and is empty is treated as a missing one,
\* the file written being exactly the block, without a blank line before it.
C18_BlockPlacementNonEmpty ==
    \A i \in 1..Len(written) :
       LET c == seen[i].content
           block == BlockOf(expected)
           ended == IF c[Len(c)] = NL THEN c ELSE c \o <<NL>>
       IN  /\ Occurs(block, written[i])
           /\ c = <<>> => written[i] = block
           /\ (c # <<>> /\ NoMarker(c)) =>
                 written[i] = ended \o <<NL>> \o block

C18_Witness ==
    /\ Len(written) >= 1
    /\ seen[1] = [exists |-> TRUE, content |-> <<"x">>]
    /\ expected = Declarable
    /\ written[1] = <<"x", NL, NL, gitignoreStart, NL, "a/", NL, "b/", NL,
                      gitignoreEnd, NL>>

\* C19: a checkout inside an expected checkout is never reported by the scan,
\* never deleted and never listed as Removed.
C19_NestedNotSwept ==
    \A p \in Nested :
       (diskAtStart[p] = "repo" /\ Parent(p) \in expected
          /\ diskAtStart[Parent(p)] = "repo") =>
          /\ \A i \in 1..Len(allRepos) : allRepos[i] # p
          /\ disk[p] = "repo"
          /\ p \notin RemovedSet

\* A task of p that had not started when the context was cancelled has ended
\* without doing anything.
Cancelled(p) == w[p] = "dropped" \/ (w[p] = "done" /\ werr[p] = "context canceled")

\* C20: once a task has returned an error, a task that has not started yet never
\* starts (it is dropped or returns the context's error), having issued no
\* operation and left its path alone and unregistered; the run returns that
\* first error, after the tasks that were running have returned; there is no
\* sweep, no write of the ignore file and no report.
C20_Cancellation ==
    /\ [](/\ \A p \in Paths :
               Cancelled(p) =>
                  ops[p] = <<>> /\ p \notin existing /\ disk[p] = diskAtStart[p]
          /\ firstErr # None =>
                /\ pc \in {"dispatch", "wait", "failed"}
                /\ allRepos = <<>> /\ result.Removed = <<>> /\ written = <<>>
                /\ pc = "failed" => (runErr = firstErr /\ Running = {}))
    /\ [][\A p \in Paths :
             (ctxDone /\ w[p] \in {"idle", "ctx"}) =>
                \/ w'[p] \in {"idle", "ctx", "dropped"}
                \/ w'[p] = "done" /\ werr'[p] = "context canceled"]_vars

C20_Witness ==
    /\ pc = "failed"
    /\ \E p, q \in expected :
          /\ werr[q] = "clone " \o q /\ runErr = werr[q]
          /\ w[p] = "done" /\ werr[p] = "context canceled"
          /\ diskAtStart[p] = "absent" /\ disk[p] = "absent"

\* How many times the operation was issued against p in this run.
CountOp(p, name) == Cardinality({i \in 1..Len(ops[p]) : ops[p][i] = name})
HasDetail(p, d) == \E i \in 1..Len(details[p]) : details[p][i] = d

\* C21: pull is issued at most once per repository and run, never after a
\* stash or a switch that failed, and only on a checkout found clean or stashed
\* with success, and found on the default branch or switched to it with success;
\* in the step that issues it the checkout is on the default branch and has no
\* change to a tracked file.
C21_PullPrecondition ==
    /\ [](\A p \in Paths :
             /\ CountOp(p, "pull") <= 1
             /\ werr[p] \in {p \o ": stash", p \o ": switch branch"} => ~HasOp(p, "pull")
             /\ HasOp(p, "pull") =>
                   /\ ~lDirty[p] \/ (force /\ stashed[p])
                   /\ \/ lCurrent[p] = OriginHead
                      \/ force /\ HasDetail(p, "switched to " \o OriginHead))
    /\ [][\A p \in Paths :
             (~HasOp(p, "pull") /\ CountOp(p, "pull")' > 0) =>
                /\ cur[p] = OriginHead
                /\ SelectSeq(status[p], IsTracked) = <<>>]_vars

C21_Witness ==
    \E p \in Paths :
       /\ force /\ lDirty[p] /\ lCurrent[p] = "dev" /\ stashed[p]
       /\ CountOp(p, "pull") = 1
       /\ w[p] = "unstash"
       /\ cur[p] = OriginHead
       /\ status[p] = << <<"?", "?">> >>
       /\ Len(stash[p]) = 1

\* The failures that can follow a successful stash of p.
AfterStashErrors(p) == {p \o ": switch branch", p \o ": pull", p \o ": unstash"}
\* What the call prints about p when it has ended: the error it returns, or
\* the Warnings of the report.
NamedInOutput(p) ==
    \/ pc = "failed" /\ runErr \in AfterStashErrors(p)
    \/ pc = "done" /\ \E i \in 1..Len(result.Warnings) :
                          result.Warnings[i] \in AfterStashErrors(p)

\* C22: with force, when the call has ended, every repository whose stash
\* succeeded either had its unstash succeed or is named by a Warning or by the
\* error of the call (switch, pull or unstash failure).
C22_StashAccountability ==
    (force /\ pc \in {"done", "failed"}) =>
       \A p \in Paths :
          stashed[p] => HasDetail(p, "unstashed") \/ NamedInOutput(p)

\* C23: when the root is a checkout itself, the scan never lists it, the sweep
\* never deletes it nor lists it as Removed, whatever the Expected Set is; what
\* is removed is at a relative path other than ".".
C23_RootNeverSwept ==
    /\ RemovedSet \subseteq Paths
    /\ diskAtStart[Root] = "repo" =>
          /\ disk[Root] = "repo"
          /\ \A i \in 1..Len(allRepos) : allRepos[i] # Root
          /\ \A p \in expected : disk[p] = "repo"

C23_Witness ==
    /\ pc = "done"
    /\ diskAtStart[Root] = "repo"
    /\ disk[Root] = "repo"
    /\ expected = {}
    /\ Len(result.Removed) >= 2

====
